---- MODULE Spec2Model ----
(***************************************************************************)
(* Model of the reactive step loop Executor.run_reactive                   *)
(* (src/agent/executor.py) together with the part of plan_next_step        *)
(* (src/agent/planner.py) that turns the model's JSON into the value the   *)
(* loop receives, and of the capture helpers (src/agent/capture.py).       *)
(*                                                                         *)
(* Every call into the browser or the planner either returns or raises;    *)
(* which of the two happens is chosen by the environment.  The try/except  *)
(* structure of the code decides what a raise does.                        *)
(***************************************************************************)
EXTENDS Integers, Sequences, FiniteSets, TLC

VARIABLES
    pc,                   \* position of run_reactive
    max_steps,            \* argument max_steps
    action_handlers,      \* self.action_handlers: the registered action names
    browser,              \* "none" | "open" | "closed"
    close_count,          \* number of browser.close() calls
    step_index,           \* local step_index (0 until line 305 assigns 1)
    step_history,         \* local step_history
    repeated_step_count,  \* local repeated_step_count
    next_step,            \* local next_step: what plan_next_step returned
    last_output,          \* the JSON the model produced in the last planner call
    captures,             \* indices of the screenshots saved, in order
    swallowed,            \* indices whose capture raised inside "except: pass"
    attempts,             \* number of handler invocations
    planner_calls,        \* number of plan_next_step calls
    planner_failed,       \* plan_next_step raised
    discarded,            \* number of proposals skipped by the repetition check
    streak,               \* verdicts on the current run of identical proposals
    exit,                 \* why the loop was left
    warned_max,           \* line 410 printed "Reached maximum steps"
    outcome,              \* "running" | "returned" | "raised"
    verdict,              \* what dom_changed says of the capture call of this step
    \* one call of a built-in handler
    h_pc,                 \* "idle" | "ready" | "done"
    h_action,             \* the handler called
    h_params,             \* the keys of params
    h_value_empty,        \* params["value"] is the empty string
    h_env,                \* which browser calls succeed during this call
    h_ops,                \* the browser calls that were made and succeeded, in order
    h_result,             \* "none" | "ok" | "ValueError" | "TextNotFound" | "Error"
    h_locator,            \* the locator key the handler used
    \* one call of Executor.run (the batch run)
    b_pc,                 \* position of run
    b_steps,              \* argument steps
    b_pos,                \* position in steps of the element being processed
    b_index,              \* local step_index
    b_captures,           \* indices of the screenshots saved, in order
    b_swallowed,          \* indices whose capture raised inside "except: pass"
    b_dispatched,         \* positions in steps whose handler was invoked, in order
    b_verdict,            \* what dom_changed says of the capture call of this step
    b_browser,            \* "none" | "open" | "closed"
    b_outcome,            \* "running" | "returned" | "raised"
    \* the registry of one Executor and one dispatch through it
    g_pc,                 \* "idle" | "ready"
    g_handlers,           \* self.action_handlers: the set of <<name, handler>>
    g_op,                 \* the last call made: register_action or a dispatch
    g_called,             \* the handler the last dispatch invoked, or "none"
    \* one call of dom_changed
    d_pc,                 \* "idle" | "ready" | "done"
    d_before,             \* before_html, as the parser reads it
    d_after,              \* after_html, as the parser reads it
    d_result,             \* the value returned
    d_ratio,              \* whether SequenceMatcher was used
    \* one call of plan_next_step
    t_pc,                 \* "idle" | "request" | "done"
    t_max_retries,        \* argument max_retries
    t_attempt,            \* the loop variable attempt
    t_requests,           \* requests made to the model
    t_waits,              \* the arguments of time.sleep, in order
    t_result,             \* "none" | "returned" | "raised" | "fell_through"
    t_response,           \* how the last request ended
    t_value               \* the value returned

vars == <<pc, max_steps, action_handlers, browser, close_count, step_index,
          step_history, repeated_step_count, next_step, last_output, captures,
          swallowed, attempts, planner_calls, planner_failed, discarded,
          streak, exit, warned_max, outcome, verdict,
          h_pc, h_action, h_params, h_value_empty, h_env, h_ops, h_result,
          h_locator,
          b_pc, b_steps, b_pos, b_index, b_captures, b_swallowed,
          b_dispatched, b_verdict, b_browser, b_outcome,
          g_pc, g_handlers, g_op, g_called,
          d_pc, d_before, d_after, d_result, d_ratio,
          t_pc, t_max_retries, t_attempt, t_requests, t_waits, t_result,
          t_response, t_value>>

\* the variables of run_reactive
reactive_vars ==
    <<pc, max_steps, action_handlers, browser, close_count, step_index,
      step_history, repeated_step_count, next_step, last_output, captures,
      swallowed, attempts, planner_calls, planner_failed, discarded,
      streak, exit, warned_max, outcome, verdict>>

\* the variables of a handler call
handler_vars ==
    <<h_pc, h_action, h_params, h_value_empty, h_env, h_ops, h_result,
      h_locator>>

\* the variables of the batch run
batch_vars ==
    <<b_pc, b_steps, b_pos, b_index, b_captures, b_swallowed, b_dispatched,
      b_verdict, b_browser, b_outcome>>

----------------------------------------------------------------------------
(* Bounds *)

MaxSteps == 5

----------------------------------------------------------------------------
(* Program constants *)

\* step_history[-3:]
HistoryWindow == 3

\* if repeated_step_count >= 2
RepetitionLimit == 2

----------------------------------------------------------------------------
(* JSON values of the "step" entry.  A dict step {action: params} is       *)
(* represented by its first key, the key set of params (isdict says        *)
(* whether params is a mapping at all) and whether a "done" key is         *)
(* present; a string step by its text; null by kind "null".                *)

None == [kind |-> "null", action |-> "", params |-> {}, isdict |-> FALSE, done |-> FALSE]

Str(t) == [kind |-> "str", action |-> t, params |-> {}, isdict |-> FALSE, done |-> FALSE]

Dict(a, p) == [kind |-> "dict", action |-> a, params |-> p, isdict |-> TRUE, done |-> FALSE]

DictScalar(a) == [kind |-> "dict", action |-> a, params |-> {}, isdict |-> FALSE, done |-> FALSE]

EmptyDict == [kind |-> "dict", action |-> "", params |-> {}, isdict |-> TRUE, done |-> FALSE]

DoneDict == [kind |-> "dict", action |-> "", params |-> {}, isdict |-> TRUE, done |-> TRUE]

\* Steps a planner can propose that the built-in handlers can carry out.
GoodSteps ==
    { Dict("navigate", {"url"}),
      Dict("click", {"selector"}),
      Dict("click", {"text"}),
      Dict("type", {"selector", "value"}) }

\* Every value the "step" entry of the model's JSON takes in this model.
StepValues ==
    GoodSteps \cup
    { None, Str(""), Str("done"), Str("click"), EmptyDict, DoneDict,
      Dict("navigate", {}),          \* url missing
      Dict("scroll", {"selector"}),  \* no handler registered
      DictScalar("click") }          \* params is not a mapping

\* The JSON objects the model answers with.
ModelOutputs ==
    { [hasStep |-> FALSE, step |-> None] } \cup
    { [hasStep |-> TRUE, step |-> v] : v \in StepValues }

NoOutput == [hasStep |-> FALSE, step |-> None]

----------------------------------------------------------------------------
(* plan_next_step: the value returned for a model output (planner.py       *)
(* 162-173).                                                               *)

\* Python truth value of a step value
Truthy(v) ==
    CASE v.kind = "null" -> FALSE
      [] v.kind = "str"  -> v.action # ""
      [] OTHER           -> v.action # "" \/ v.done

\* "done" in step
ContainsDone(v) ==
    CASE v.kind = "null" -> FALSE
      [] v.kind = "str"  -> v.action = "done"
      [] OTHER           -> v.done

\* parsed_response.get("step")
GetStep(out) == IF out.hasStep THEN out.step ELSE None

plan_next_step(out) ==
    IF Truthy(GetStep(out)) /\ ContainsDone(GetStep(out)) THEN None ELSE GetStep(out)

----------------------------------------------------------------------------
(* Helpers of run_reactive                                                 *)

Max(a, b) == IF a >= b THEN a ELSE b

\* s[-n:]
LastN(s, n) == SubSeq(s, Max(1, Len(s) - n + 1), Len(s))

\* x in s
Contains(s, x) == \E i \in 1..Len(s) : s[i] = x

\* not isinstance(next_step, dict) or len(next_step) == 0   (line 337)
InvalidFormat(v) == v.kind # "dict" \/ (v.action = "" /\ ~v.done)

\* a repetition check that looks at the whole history
IsRepeatedAnywhere(v, hist) == Contains(hist, v)

\* next_step in step_history[-3:]   (line 342)
IsRepeated(v, hist) == Contains(LastN(hist, HistoryWindow), v)

\* a repetition limit that is off by one
TooManyRepeatsLate(n) == n > RepetitionLimit

\* repeated_step_count >= 2   (line 347)
TooManyRepeats(n) == n >= RepetitionLimit

\* a loop test that stops one step early
LoopContinuesShort(i, m) == i < m

\* while step_index <= max_steps   (line 312)
LoopContinues(i, m) == i <= m

LoopHead(i, m) == IF LoopContinues(i, m) THEN "plan" ELSE "after_loop"

\* an increment that is forgotten
NextIndexStays(i) == i

\* an increment that skips an index
NextIndexSkips(i) == i + 2

\* step_index += 1   (line 403)
NextIndex(i) == i + 1

\* the ValueError checks at the top of the built-in handlers
HandlerRejects(a, p) ==
    CASE a = "navigate" -> "url" \notin p
      [] a = "click"    -> "text" \notin p /\ "selector" \notin p
      [] a = "type"     -> "value" \notin p \/ ("text" \notin p /\ "selector" \notin p)
      [] a = "wait_for" -> "text" \notin p /\ "selector" \notin p
      [] OTHER          -> FALSE

\* capture_state: page.screenshot either saves the file index.png or raises
capture_state(caps, index, ok) == IF ok THEN Append(caps, index) ELSE caps

\* detect_and_capture: capture when always_capture or the DOM changed
detect_and_capture(caps, index, changed, always_capture, ok) ==
    IF always_capture \/ changed THEN capture_state(caps, index, ok) ELSE caps

\* a history that puts the newest entry first
RecordFront(hist, v) == <<v>> \o hist

\* step_history.append(next_step)   (line 392)
Record(hist, v) == Append(hist, v)

\* a run loop that leaves the decision to the comparator
AlwaysCaptureOff == FALSE

\* always_capture=True in the calls of run_reactive   (lines 389, 398)
AlwaysCapture == TRUE

\* the answer dom_changed(dom_before, dom_after) has for a capture call
DomVerdict(changed) == IF changed THEN "changed" ELSE "same"

\* the registry after Executor.__init__
DefaultActions == {"navigate", "click", "type", "wait_for"}

\* the variables of the registry
registry_vars == <<g_pc, g_handlers, g_op, g_called>>

\* the variables of a dom_changed call
dom_vars == <<d_pc, d_before, d_after, d_result, d_ratio>>

\* the variables of a plan_next_step call
retry_vars ==
    <<t_pc, t_max_retries, t_attempt, t_requests, t_waits, t_result,
      t_response, t_value>>

\* every browser call of a handler succeeds; strat is the set of the type
\* strategies (by position) that find the input and fill it
AllOk ==
    [goto |-> TRUE, settle |-> TRUE, resolve |-> TRUE, visible |-> TRUE,
     click |-> TRUE, selector |-> TRUE, fill |-> TRUE, strat |-> {}]

----------------------------------------------------------------------------
\* no handler call is being examined
HandlerIdle ==
    /\ h_pc = "idle"
    /\ h_action = ""
    /\ h_params = {}
    /\ h_value_empty = FALSE
    /\ h_env = AllOk
    /\ h_ops = <<>>
    /\ h_result = "none"
    /\ h_locator = "none"

\* no batch run is being examined
BatchIdle ==
    /\ b_pc = "idle"
    /\ b_steps = <<>>
    /\ b_pos = 0
    /\ b_index = 0
    /\ b_captures = <<>>
    /\ b_swallowed = {}
    /\ b_dispatched = <<>>
    /\ b_verdict = "none"
    /\ b_browser = "none"
    /\ b_outcome = "running"

\* no registry is being examined
RegistryIdle ==
    /\ g_pc = "idle"
    /\ g_handlers = {}
    /\ g_op = <<>>
    /\ g_called = "none"

\* no dom_changed call is being examined
DomIdle ==
    /\ d_pc = "idle"
    /\ d_before = <<>>
    /\ d_after = <<>>
    /\ d_result = FALSE
    /\ d_ratio = FALSE

\* no plan_next_step call is being examined
RetryIdle ==
    /\ t_pc = "idle"
    /\ t_max_retries = 0
    /\ t_attempt = 0
    /\ t_requests = 0
    /\ t_waits = <<>>
    /\ t_result = "none"
    /\ t_response = "none"
    /\ t_value = None

\* run_reactive(task, max_steps) has just been called on a new Executor
ReactiveInit ==
    /\ pc = "start"
    /\ max_steps \in 0..MaxSteps
    /\ action_handlers = DefaultActions
    /\ browser = "none"
    /\ close_count = 0
    /\ step_index = 0
    /\ step_history = <<>>
    /\ repeated_step_count = 0
    /\ next_step = None
    /\ last_output = NoOutput
    /\ captures = <<>>
    /\ swallowed = {}
    /\ attempts = 0
    /\ planner_calls = 0
    /\ planner_failed = FALSE
    /\ discarded = 0
    /\ streak = <<>>
    /\ exit = "none"
    /\ warned_max = FALSE
    /\ outcome = "running"
    /\ verdict = "none"

Init ==
    /\ ReactiveInit
    /\ HandlerIdle
    /\ BatchIdle
    /\ RegistryIdle
    /\ DomIdle
    /\ RetryIdle

\* The exception leaves run_reactive: nothing after the raise runs.
Propagate ==
    /\ pc' = "exited"
    /\ outcome' = "raised"

\* break / except Exception: break
Break(reason) ==
    /\ pc' = "after_loop"
    /\ exit' = reason

\* lines 298-300: the browser session is opened
Launch ==
    /\ pc = "start"
    /\ browser' = "open"
    /\ pc' = "baseline"
    /\ UNCHANGED <<outcome, max_steps, action_handlers, close_count, step_index,
                   step_history, repeated_step_count, next_step, last_output,
                   captures, swallowed, attempts, planner_calls,
                   planner_failed, discarded, streak, exit, warned_max>>
    /\ UNCHANGED verdict
    /\ UNCHANGED <<handler_vars, batch_vars>>
    /\ UNCHANGED <<registry_vars, dom_vars, retry_vars>>

\* a baseline that is only captured when the loop is going to run
CaptureBaselineGated ==
    /\ pc = "baseline"
    /\ \E ok \in BOOLEAN :
         /\ captures' = IF max_steps > 0 THEN capture_state(captures, 0, ok) ELSE captures
         /\ IF ok
            THEN /\ step_index' = 1
                 /\ pc' = LoopHead(1, max_steps)
                 /\ UNCHANGED outcome
            ELSE /\ Propagate
                 /\ UNCHANGED step_index
    /\ UNCHANGED <<max_steps, action_handlers, browser, close_count,
                   step_history, repeated_step_count, next_step, last_output,
                   swallowed, attempts, planner_calls, planner_failed,
                   discarded, streak, exit, warned_max, verdict>>
    /\ UNCHANGED <<handler_vars, batch_vars>>
    /\ UNCHANGED <<registry_vars, dom_vars, retry_vars>>

\* lines 303-307: baseline capture, then the locals of the loop
CaptureBaseline ==
    /\ pc = "baseline"
    /\ \E ok \in BOOLEAN :
         /\ captures' = capture_state(captures, 0, ok)
         /\ IF ok
            THEN /\ step_index' = 1
                 /\ pc' = LoopHead(1, max_steps)
                 /\ UNCHANGED outcome
            ELSE /\ Propagate
                 /\ UNCHANGED step_index
    /\ UNCHANGED <<max_steps, action_handlers, browser, close_count,
                   step_history, repeated_step_count, next_step, last_output,
                   swallowed, attempts, planner_calls, planner_failed,
                   discarded, streak, exit, warned_max>>
    /\ UNCHANGED verdict
    /\ UNCHANGED <<handler_vars, batch_vars>>
    /\ UNCHANGED <<registry_vars, dom_vars, retry_vars>>

\* line 315: page.content() raises; caught at line 405
ContentFails ==
    /\ pc = "plan"
    /\ Break("error")
    /\ UNCHANGED <<max_steps, action_handlers, browser, close_count,
                   step_index, step_history, repeated_step_count, next_step,
                   last_output, captures, swallowed, attempts, planner_calls,
                   planner_failed, discarded, streak, warned_max, outcome>>
    /\ UNCHANGED verdict
    /\ UNCHANGED <<handler_vars, batch_vars>>
    /\ UNCHANGED <<registry_vars, dom_vars, retry_vars>>

\* lines 325-329: plan_next_step raises (rate limit after the retries,
\* quota, API error, JSON that does not parse); caught at line 405
PlannerRaises ==
    /\ pc = "plan"
    /\ planner_calls' = planner_calls + 1
    /\ planner_failed' = TRUE
    /\ Break("error")
    /\ UNCHANGED <<max_steps, action_handlers, browser, close_count,
                   step_index, step_history, repeated_step_count, next_step,
                   last_output, captures, swallowed, attempts, discarded,
                   streak, warned_max, outcome>>
    /\ UNCHANGED verdict
    /\ UNCHANGED <<handler_vars, batch_vars>>
    /\ UNCHANGED <<registry_vars, dom_vars, retry_vars>>

\* lines 325-329: plan_next_step returns
PlannerReturns ==
    /\ pc = "plan"
    /\ \E out \in ModelOutputs :
         /\ last_output' = out
         /\ next_step' = plan_next_step(out)
         /\ streak' = IF plan_next_step(out) = next_step /\ planner_calls > 0
                      THEN streak ELSE <<>>
    /\ planner_calls' = planner_calls + 1
    /\ pc' = "check"
    /\ UNCHANGED <<max_steps, action_handlers, browser, close_count,
                   step_index, step_history, repeated_step_count, captures,
                   swallowed, attempts, planner_failed, discarded, exit,
                   warned_max, outcome>>
    /\ UNCHANGED verdict
    /\ UNCHANGED <<handler_vars, batch_vars>>
    /\ UNCHANGED <<registry_vars, dom_vars, retry_vars>>

\* the verdicts on the last three proposals of a run of identical proposals
Verdict(v) == LastN(Append(streak, v), 3)

\* lines 331-377: everything between the planner's return and the handler call
CheckStep ==
    /\ pc = "check"
    /\ IF next_step = None
       THEN \* lines 332-334
            /\ Break("completed")
            /\ streak' = Verdict("end")
            /\ UNCHANGED <<repeated_step_count, discarded>>
       ELSE IF InvalidFormat(next_step)
       THEN \* lines 337-339
            /\ Break("invalid_format")
            /\ streak' = Verdict("end")
            /\ UNCHANGED <<repeated_step_count, discarded>>
       ELSE IF IsRepeated(next_step, step_history)
       THEN \* lines 342-354
            /\ repeated_step_count' = repeated_step_count + 1
            /\ IF TooManyRepeats(repeated_step_count + 1)
               THEN /\ Break("repetition")
                    /\ streak' = Verdict("stop")
                    /\ UNCHANGED discarded
               ELSE /\ pc' = LoopHead(step_index, max_steps)
                    /\ discarded' = discarded + 1
                    /\ streak' = Verdict("skip")
                    /\ UNCHANGED exit
       ELSE \* lines 355-377
            /\ repeated_step_count' = 0
            /\ UNCHANGED discarded
            /\ IF ~next_step.isdict
               THEN /\ Break("invalid_params")
                    /\ streak' = Verdict("end")
               ELSE \E content_ok \in BOOLEAN :
                      IF ~content_ok
                      THEN /\ Break("error")
                           /\ streak' = Verdict("end")
                      ELSE IF next_step.action \notin action_handlers
                      THEN /\ Break("unknown_action")
                           /\ streak' = Verdict("end")
                      ELSE /\ pc' = "handler"
                           /\ streak' = Verdict("dispatch")
                           /\ UNCHANGED exit
    /\ UNCHANGED <<max_steps, action_handlers, browser, close_count,
                   step_index, step_history, next_step, last_output, captures,
                   swallowed, attempts, planner_calls, planner_failed,
                   warned_max, outcome>>
    /\ UNCHANGED verdict
    /\ UNCHANGED <<handler_vars, batch_vars>>
    /\ UNCHANGED <<registry_vars, dom_vars, retry_vars>>

\* lines 380-386: the handler runs (and raises whenever its own checks
\* reject the parameters); a timeout of the settle wait is swallowed
InvokeHandler ==
    /\ pc = "handler"
    /\ attempts' = attempts + 1
    /\ \E ok \in BOOLEAN :
         /\ ok => ~HandlerRejects(next_step.action, next_step.params)
         /\ pc' = IF ok THEN "capture" ELSE "on_error"
    /\ UNCHANGED <<max_steps, action_handlers, browser, close_count,
                   step_index, step_history, repeated_step_count, next_step,
                   last_output, captures, swallowed, planner_calls,
                   planner_failed, discarded, streak, exit, warned_max,
                   outcome>>
    /\ UNCHANGED verdict
    /\ UNCHANGED <<handler_vars, batch_vars>>
    /\ UNCHANGED <<registry_vars, dom_vars, retry_vars>>

\* lines 389-392: capture after a successful action, then record the step
CaptureAfter ==
    /\ pc = "capture"
    /\ \E ok \in BOOLEAN, changed \in BOOLEAN :
         IF ok
         THEN /\ captures' = detect_and_capture(captures, step_index, changed, AlwaysCapture, ok)
              /\ step_history' = Record(step_history, next_step)
              /\ verdict' = DomVerdict(changed)
              /\ pc' = "advance"
         ELSE /\ pc' = "on_error"
              /\ UNCHANGED <<captures, step_history, verdict>>
    /\ UNCHANGED <<max_steps, action_handlers, browser, close_count,
                   step_index, repeated_step_count, next_step, last_output,
                   swallowed, attempts, planner_calls, planner_failed,
                   discarded, streak, exit, warned_max, outcome>>
    /\ UNCHANGED <<handler_vars, batch_vars>>
    /\ UNCHANGED <<registry_vars, dom_vars, retry_vars>>

\* an except branch whose capture is not guarded: its raise ends the loop
CaptureOnErrorUnguarded ==
    /\ pc = "on_error"
    /\ \E ok \in BOOLEAN, changed \in BOOLEAN :
         /\ captures' = detect_and_capture(captures, step_index, changed, AlwaysCapture, ok)
         /\ verdict' = IF ok THEN DomVerdict(changed) ELSE verdict
         /\ IF ok THEN pc' = "advance" /\ UNCHANGED exit ELSE Break("error")
    /\ UNCHANGED <<max_steps, action_handlers, browser, close_count,
                   step_index, step_history, repeated_step_count, next_step,
                   last_output, swallowed, attempts, planner_calls,
                   planner_failed, discarded, streak, warned_max, outcome>>
    /\ UNCHANGED <<handler_vars, batch_vars>>
    /\ UNCHANGED <<registry_vars, dom_vars, retry_vars>>

\* an except branch that records the failed step in the history
CaptureOnErrorRecords ==
    /\ pc = "on_error"
    /\ \E ok \in BOOLEAN, changed \in BOOLEAN :
         /\ captures' = detect_and_capture(captures, step_index, changed, AlwaysCapture, ok)
         /\ verdict' = IF ok THEN DomVerdict(changed) ELSE verdict
         /\ swallowed' = IF ok THEN swallowed ELSE swallowed \cup {step_index}
    /\ pc' = "advance"
    /\ step_history' = Record(step_history, next_step)
    /\ UNCHANGED <<max_steps, action_handlers, browser, close_count,
                   step_index, repeated_step_count, next_step,
                   last_output, attempts, planner_calls, planner_failed,
                   discarded, streak, exit, warned_max, outcome>>
    /\ UNCHANGED <<handler_vars, batch_vars>>
    /\ UNCHANGED <<registry_vars, dom_vars, retry_vars>>

\* lines 394-400: the except branch captures too; a raise in it is swallowed
CaptureOnError ==
    /\ pc = "on_error"
    /\ \E ok \in BOOLEAN, changed \in BOOLEAN :
         /\ captures' = detect_and_capture(captures, step_index, changed, AlwaysCapture, ok)
         /\ verdict' = IF ok THEN DomVerdict(changed) ELSE verdict
         /\ swallowed' = IF ok THEN swallowed ELSE swallowed \cup {step_index}
    /\ pc' = "advance"
    /\ UNCHANGED <<max_steps, action_handlers, browser, close_count,
                   step_index, step_history, repeated_step_count, next_step,
                   last_output, attempts, planner_calls, planner_failed,
                   discarded, streak, exit, warned_max, outcome>>
    /\ UNCHANGED <<handler_vars, batch_vars>>
    /\ UNCHANGED <<registry_vars, dom_vars, retry_vars>>

\* line 403, then the loop test of line 312
Advance ==
    /\ pc = "advance"
    /\ step_index' = NextIndex(step_index)
    /\ pc' = LoopHead(NextIndex(step_index), max_steps)
    /\ verdict' = "none"
    /\ UNCHANGED <<max_steps, action_handlers, browser, close_count,
                   step_history, repeated_step_count, next_step, last_output,
                   captures, swallowed, attempts, planner_calls,
                   planner_failed, discarded, streak, exit, warned_max,
                   outcome>>
    /\ UNCHANGED <<handler_vars, batch_vars>>
    /\ UNCHANGED <<registry_vars, dom_vars, retry_vars>>

\* a warning that compares with >=
FinishWarnsAtLimit ==
    /\ pc = "after_loop"
    /\ warned_max' = (step_index >= max_steps)
    /\ browser' = "closed"
    /\ close_count' = close_count + 1
    /\ outcome' = "returned"
    /\ pc' = "exited"
    /\ UNCHANGED <<max_steps, action_handlers, step_index, step_history,
                   repeated_step_count, next_step, last_output, captures,
                   swallowed, attempts, planner_calls, planner_failed,
                   discarded, streak, exit>>
    /\ UNCHANGED verdict
    /\ UNCHANGED <<handler_vars, batch_vars>>
    /\ UNCHANGED <<registry_vars, dom_vars, retry_vars>>

\* lines 409-412: the warning, browser.close(), normal return
Finish ==
    /\ pc = "after_loop"
    /\ warned_max' = (step_index > max_steps)
    /\ browser' = "closed"
    /\ close_count' = close_count + 1
    /\ outcome' = "returned"
    /\ pc' = "exited"
    /\ UNCHANGED <<max_steps, action_handlers, step_index, step_history,
                   repeated_step_count, next_step, last_output, captures,
                   swallowed, attempts, planner_calls, planner_failed,
                   discarded, streak, exit>>
    /\ UNCHANGED verdict
    /\ UNCHANGED <<handler_vars, batch_vars>>
    /\ UNCHANGED <<registry_vars, dom_vars, retry_vars>>

Next ==
    \/ Launch
    \/ CaptureBaseline
    \/ ContentFails
    \/ PlannerRaises
    \/ PlannerReturns
    \/ CheckStep
    \/ InvokeHandler
    \/ CaptureAfter
    \/ CaptureOnError
    \/ Advance
    \/ Finish

Spec == Init /\ [][Next]_vars

----------------------------------------------------------------------------
(* The built-in handlers, one call at a time                               *)

\* the keys a planner is told it may put in params
ParamKeys == {"url", "text", "selector", "xpath", "coordinates", "value"}

\* the entries of a sequence
Range(seq) == { seq[i] : i \in 1..Len(seq) }

\* what a handler call did: the browser calls that succeeded, how it ended,
\* and the locator key it used
Outcome(ops, result, locator) ==
    [ops |-> ops, result |-> result, locator |-> locator]

\* _handle_navigate: goto, then wait for the network to go idle
handle_navigate(p, env) ==
    IF "url" \notin p THEN Outcome(<<>>, "ValueError", "none")
    ELSE IF ~env.goto THEN Outcome(<<>>, "Error", "none")
    ELSE IF ~env.settle THEN Outcome(<<"goto">>, "Error", "none")
    ELSE Outcome(<<"goto", "settle">>, "ok", "none")

\* _handle_click without the visibility check
handle_click_unchecked(p, env) ==
    IF "text" \in p THEN
        IF ~env.resolve THEN Outcome(<<>>, "TextNotFound", "text")
        ELSE IF ~env.click
        THEN Outcome(<<"resolve_text">>, "TextNotFound", "text")
        ELSE Outcome(<<"resolve_text", "click", "pause">>, "ok", "text")
    ELSE IF "selector" \in p THEN
        IF ~env.selector THEN Outcome(<<>>, "Error", "selector")
        ELSE IF ~env.click
        THEN Outcome(<<"wait_for_selector">>, "Error", "selector")
        ELSE Outcome(<<"wait_for_selector", "click", "pause">>, "ok", "selector")
    ELSE Outcome(<<>>, "ValueError", "none")

\* _handle_click: by text (every failure becomes the ValueError that
\* carries the text), else by selector, else ValueError; the pause follows a
\* click that returned
handle_click(p, env) ==
    IF "text" \in p THEN
        IF ~env.resolve THEN Outcome(<<>>, "TextNotFound", "text")
        ELSE IF ~env.visible
        THEN Outcome(<<"resolve_text", "is_visible">>, "TextNotFound", "text")
        ELSE IF ~env.click
        THEN Outcome(<<"resolve_text", "is_visible">>, "TextNotFound", "text")
        ELSE Outcome(<<"resolve_text", "is_visible", "click", "pause">>,
                     "ok", "text")
    ELSE IF "selector" \in p THEN
        IF ~env.selector THEN Outcome(<<>>, "Error", "selector")
        ELSE IF ~env.click
        THEN Outcome(<<"wait_for_selector">>, "Error", "selector")
        ELSE Outcome(<<"wait_for_selector", "click", "pause">>, "ok", "selector")
    ELSE Outcome(<<>>, "ValueError", "none")

\* the ways _handle_type looks for the input next to a text, in the order
\* of the nested try blocks
Strategies ==
    <<"label", "aria_or_placeholder", "input_near_text", "role_textbox",
      "placeholder">>

\* the nested try blocks with the innermost one left out
RECURSIVE TryFromSkipsLast(_, _)
TryFromSkipsLast(k, ok) ==
    IF k >= Len(Strategies) THEN [tried |-> <<>>, filled |-> FALSE]
    ELSE IF k \in ok THEN [tried |-> <<Strategies[k]>>, filled |-> TRUE]
    ELSE LET rest == TryFromSkipsLast(k + 1, ok)
         IN  [tried |-> <<Strategies[k]>> \o rest.tried,
              filled |-> rest.filled]

\* the nested try blocks from the k-th on: the k-th strategy is tried, and
\* the next one only in its except branch
RECURSIVE TryFrom(_, _)
TryFrom(k, ok) ==
    IF k > Len(Strategies) THEN [tried |-> <<>>, filled |-> FALSE]
    ELSE IF k \in ok THEN [tried |-> <<Strategies[k]>>, filled |-> TRUE]
    ELSE LET rest == TryFrom(k + 1, ok)
         IN  [tried |-> <<Strategies[k]>> \o rest.tried,
              filled |-> rest.filled]

\* _handle_type: value must be a key of params (its content is not looked
\* at); by text through the strategies, else by selector, else ValueError
handle_type(p, env) ==
    IF "value" \notin p THEN Outcome(<<>>, "ValueError", "none")
    ELSE IF "text" \in p THEN
        LET r == TryFrom(1, env.strat)
        IN  IF r.filled
            THEN Outcome(r.tried \o <<"fill", "pause">>, "ok", "text")
            ELSE Outcome(r.tried, "Error", "text")
    ELSE IF "selector" \in p THEN
        IF ~env.selector THEN Outcome(<<>>, "Error", "selector")
        ELSE IF ~env.fill
        THEN Outcome(<<"wait_for_selector">>, "Error", "selector")
        ELSE Outcome(<<"wait_for_selector", "fill", "pause">>, "ok", "selector")
    ELSE Outcome(<<>>, "ValueError", "none")

\* _handle_wait_for: by text, else by selector, else ValueError
handle_wait_for(p, env) ==
    IF "text" \in p THEN
        IF env.resolve THEN Outcome(<<"resolve_text">>, "ok", "text")
        ELSE Outcome(<<>>, "Error", "text")
    ELSE IF "selector" \in p THEN
        IF env.selector THEN Outcome(<<"wait_for_selector">>, "ok", "selector")
        ELSE Outcome(<<>>, "Error", "selector")
    ELSE Outcome(<<>>, "ValueError", "none")

\* the browser behaviours a handler call can meet
Envs(a) ==
    CASE a = "navigate" ->
           { [AllOk EXCEPT !.goto = g, !.settle = s] : g, s \in BOOLEAN }
      [] a = "click" ->
           { [AllOk EXCEPT !.resolve = r, !.visible = v, !.click = c,
                           !.selector = s] : r, v, c, s \in BOOLEAN }
      [] a = "type" ->
           { [AllOk EXCEPT !.strat = st, !.selector = s, !.fill = f] :
               st \in SUBSET (1..Len(Strategies)), s \in BOOLEAN,
               f \in BOOLEAN }
      [] a = "wait_for" ->
           { [AllOk EXCEPT !.resolve = r, !.selector = s] : r, s \in BOOLEAN }

\* a handler is about to be called with params of any shape
HandlerInit ==
    /\ ReactiveInit
    /\ max_steps = 0
    /\ BatchIdle
    /\ RegistryIdle
    /\ DomIdle
    /\ RetryIdle
    /\ h_pc = "ready"
    /\ h_action \in DefaultActions
    /\ h_params \in SUBSET ParamKeys
    /\ h_value_empty \in BOOLEAN
    /\ h_value_empty => (h_action = "type" /\ "value" \in h_params)
    /\ h_env = AllOk
    /\ h_ops = <<>>
    /\ h_result = "none"
    /\ h_locator = "none"

\* the call returns or raises
Handled(out, env) ==
    /\ h_pc' = "done"
    /\ h_env' = env
    /\ h_ops' = out.ops
    /\ h_result' = out.result
    /\ h_locator' = out.locator
    /\ UNCHANGED <<h_action, h_params, h_value_empty>>
    /\ UNCHANGED <<reactive_vars, batch_vars>>
    /\ UNCHANGED <<registry_vars, dom_vars, retry_vars>>

HandleNavigate ==
    /\ h_pc = "ready"
    /\ h_action = "navigate"
    /\ \E env \in Envs("navigate") : Handled(handle_navigate(h_params, env), env)

HandleClick ==
    /\ h_pc = "ready"
    /\ h_action = "click"
    /\ \E env \in Envs("click") : Handled(handle_click(h_params, env), env)

HandleType ==
    /\ h_pc = "ready"
    /\ h_action = "type"
    /\ \E env \in Envs("type") : Handled(handle_type(h_params, env), env)

HandleWaitFor ==
    /\ h_pc = "ready"
    /\ h_action = "wait_for"
    /\ \E env \in Envs("wait_for") : Handled(handle_wait_for(h_params, env), env)

HandlerNext ==
    \/ HandleNavigate
    \/ HandleClick
    \/ HandleType
    \/ HandleWaitFor

SpecHandlers == HandlerInit /\ [][HandlerNext]_vars

----------------------------------------------------------------------------
(* Executor.run: the batch run over a list of steps                        *)

\* longest list of steps examined
MaxBatch == 3

\* the elements a list of steps is made of
BatchSteps ==
    { Str("click"),                  \* not a dict
      EmptyDict,                     \* len(step) == 0
      DictScalar("click"),           \* params is not a mapping
      Dict("scroll", {"selector"}),  \* no handler registered
      Dict("navigate", {}),          \* url missing
      Dict("click", {"selector"}) }

\* the lists of steps of length at most n
StepLists(n) == UNION { [1..k -> BatchSteps] : k \in 0..n }

\* lines 217 and 227: the element is skipped before anything is done
SkippedUnseen(v) == v.kind # "dict" \/ v = EmptyDict \/ ~v.isdict

\* a batch run that leaves the decision to the comparator
BatchAlwaysCaptureOff == FALSE

\* always_capture=True in the calls of run   (lines 258, 265)
BatchAlwaysCapture == TRUE

\* run(steps) has just been called on a new Executor
BatchInit ==
    /\ ReactiveInit
    /\ max_steps = 0
    /\ HandlerIdle
    /\ RegistryIdle
    /\ DomIdle
    /\ RetryIdle
    /\ b_pc = "start"
    /\ b_steps \in StepLists(MaxBatch)
    /\ b_pos = 0
    /\ b_index = 0
    /\ b_captures = <<>>
    /\ b_swallowed = {}
    /\ b_dispatched = <<>>
    /\ b_verdict = "none"
    /\ b_browser = "none"
    /\ b_outcome = "running"

\* lines 204-206
BatchLaunch ==
    /\ b_pc = "start"
    /\ b_browser' = "open"
    /\ b_pc' = "baseline"
    /\ UNCHANGED <<b_steps, b_pos, b_index, b_captures, b_swallowed,
                   b_dispatched, b_verdict, b_outcome>>
    /\ UNCHANGED <<reactive_vars, handler_vars>>
    /\ UNCHANGED <<registry_vars, dom_vars, retry_vars>>

\* lines 211-213: the baseline capture, whose exception leaves run
BatchBaseline ==
    /\ b_pc = "baseline"
    /\ \E ok \in BOOLEAN :
         /\ b_captures' = capture_state(b_captures, 0, ok)
         /\ IF ok
            THEN /\ b_index' = 1
                 /\ b_pc' = "next"
                 /\ UNCHANGED b_outcome
            ELSE /\ b_pc' = "exited"
                 /\ b_outcome' = "raised"
                 /\ UNCHANGED b_index
    /\ UNCHANGED <<b_steps, b_pos, b_swallowed, b_dispatched, b_verdict,
                   b_browser>>
    /\ UNCHANGED <<reactive_vars, handler_vars>>
    /\ UNCHANGED <<registry_vars, dom_vars, retry_vars>>

\* lines 217-230: an element that is not a non-empty dict, or whose params
\* is not a mapping, is skipped
BatchSkipInvalid ==
    /\ b_pc = "next"
    /\ b_pos < Len(b_steps)
    /\ SkippedUnseen(b_steps[b_pos + 1])
    /\ b_pos' = b_pos + 1
    /\ b_index' = b_index + 1
    /\ UNCHANGED <<b_pc, b_steps, b_captures, b_swallowed, b_dispatched,
                   b_verdict, b_browser, b_outcome>>
    /\ UNCHANGED <<reactive_vars, handler_vars>>
    /\ UNCHANGED <<registry_vars, dom_vars, retry_vars>>

\* line 235: page.content() is outside the try block
BatchContentFails ==
    /\ b_pc = "next"
    /\ b_pos < Len(b_steps)
    /\ ~SkippedUnseen(b_steps[b_pos + 1])
    /\ b_pos' = b_pos + 1
    /\ b_pc' = "exited"
    /\ b_outcome' = "raised"
    /\ UNCHANGED <<b_steps, b_index, b_captures, b_swallowed, b_dispatched,
                   b_verdict, b_browser>>
    /\ UNCHANGED <<reactive_vars, handler_vars>>
    /\ UNCHANGED <<registry_vars, dom_vars, retry_vars>>

\* lines 240-244: no handler for the action
BatchSkipUnknown ==
    /\ b_pc = "next"
    /\ b_pos < Len(b_steps)
    /\ ~SkippedUnseen(b_steps[b_pos + 1])
    /\ b_steps[b_pos + 1].action \notin DefaultActions
    /\ b_pos' = b_pos + 1
    /\ b_index' = b_index + 1
    /\ UNCHANGED <<b_pc, b_steps, b_captures, b_swallowed, b_dispatched,
                   b_verdict, b_browser, b_outcome>>
    /\ UNCHANGED <<reactive_vars, handler_vars>>
    /\ UNCHANGED <<registry_vars, dom_vars, retry_vars>>

\* lines 247-254: the handler is called; the settle wait cannot fail the step
BatchInvoke ==
    /\ b_pc = "next"
    /\ b_pos < Len(b_steps)
    /\ ~SkippedUnseen(b_steps[b_pos + 1])
    /\ b_steps[b_pos + 1].action \in DefaultActions
    /\ b_pos' = b_pos + 1
    /\ b_dispatched' = Append(b_dispatched, b_pos + 1)
    /\ \E ok \in BOOLEAN :
         /\ ok => ~HandlerRejects(b_steps[b_pos + 1].action,
                                  b_steps[b_pos + 1].params)
         /\ b_pc' = IF ok THEN "capture" ELSE "on_error"
    /\ UNCHANGED <<b_steps, b_index, b_captures, b_swallowed, b_verdict,
                   b_browser, b_outcome>>
    /\ UNCHANGED <<reactive_vars, handler_vars>>
    /\ UNCHANGED <<registry_vars, dom_vars, retry_vars>>

\* line 258: the capture after a handler that returned
BatchCaptureAfter ==
    /\ b_pc = "capture"
    /\ \E ok \in BOOLEAN, changed \in BOOLEAN :
         IF ok
         THEN /\ b_captures' = detect_and_capture(b_captures, b_index, changed,
                                                  BatchAlwaysCapture, ok)
              /\ b_verdict' = DomVerdict(changed)
              /\ b_pc' = "advance"
         ELSE /\ b_pc' = "on_error"
              /\ UNCHANGED <<b_captures, b_verdict>>
    /\ UNCHANGED <<b_steps, b_pos, b_index, b_swallowed, b_dispatched,
                   b_browser, b_outcome>>
    /\ UNCHANGED <<reactive_vars, handler_vars>>
    /\ UNCHANGED <<registry_vars, dom_vars, retry_vars>>

\* lines 260-267: the except branch captures too; a raise in it is swallowed
BatchCaptureOnError ==
    /\ b_pc = "on_error"
    /\ \E ok \in BOOLEAN, changed \in BOOLEAN :
         /\ b_captures' = detect_and_capture(b_captures, b_index, changed,
                                             BatchAlwaysCapture, ok)
         /\ b_verdict' = IF ok THEN DomVerdict(changed) ELSE b_verdict
         /\ b_swallowed' = IF ok THEN b_swallowed ELSE b_swallowed \cup {b_index}
    /\ b_pc' = "advance"
    /\ UNCHANGED <<b_steps, b_pos, b_index, b_dispatched, b_browser,
                   b_outcome>>
    /\ UNCHANGED <<reactive_vars, handler_vars>>
    /\ UNCHANGED <<registry_vars, dom_vars, retry_vars>>

\* line 269
BatchAdvance ==
    /\ b_pc = "advance"
    /\ b_index' = b_index + 1
    /\ b_verdict' = "none"
    /\ b_pc' = "next"
    /\ UNCHANGED <<b_steps, b_pos, b_captures, b_swallowed, b_dispatched,
                   b_browser, b_outcome>>
    /\ UNCHANGED <<reactive_vars, handler_vars>>
    /\ UNCHANGED <<registry_vars, dom_vars, retry_vars>>

\* line 271: the list is exhausted
BatchFinish ==
    /\ b_pc = "next"
    /\ b_pos = Len(b_steps)
    /\ b_browser' = "closed"
    /\ b_outcome' = "returned"
    /\ b_pc' = "exited"
    /\ UNCHANGED <<b_steps, b_pos, b_index, b_captures, b_swallowed,
                   b_dispatched, b_verdict>>
    /\ UNCHANGED <<reactive_vars, handler_vars>>
    /\ UNCHANGED <<registry_vars, dom_vars, retry_vars>>

BatchNext ==
    \/ BatchLaunch
    \/ BatchBaseline
    \/ BatchSkipInvalid
    \/ BatchContentFails
    \/ BatchSkipUnknown
    \/ BatchInvoke
    \/ BatchCaptureAfter
    \/ BatchCaptureOnError
    \/ BatchAdvance
    \/ BatchFinish

SpecBatch == BatchInit /\ [][BatchNext]_vars

----------------------------------------------------------------------------
(* The action registry of an Executor                                      *)

\* action names a caller registers or a step names
ActionNames == DefaultActions \cup {"scroll"}

\* the handlers a caller passes to register_action; both are functions
CustomHandlers == {"custom_handler", "_handle_click"}

\* the names bound in a registry
Bound(reg) == { p[1] : p \in reg }

\* self.action_handlers.get(name): the handler bound to name, or None
Lookup(reg, name) ==
    IF name \in Bound(reg)
    THEN (CHOOSE p \in reg : p[1] = name)[2]
    ELSE "none"

\* a registration that keeps the first binding of a name
register_action_keeps_first(reg, name, handler) ==
    IF name \in Bound(reg) THEN reg ELSE reg \cup {<<name, handler>>}

\* self.action_handlers[action_name] = handler
register_action(reg, name, handler) ==
    { p \in reg : p[1] # name } \cup {<<name, handler>>}

\* _register_default_actions on the empty registry
register_default_actions ==
    register_action(
        register_action(
            register_action(
                register_action({}, "navigate", "_handle_navigate"),
                "click", "_handle_click"),
            "type", "_handle_type"),
        "wait_for", "_handle_wait_for")

\* Executor(...) has just been constructed
RegistryInit ==
    /\ ReactiveInit
    /\ max_steps = 0
    /\ HandlerIdle
    /\ BatchIdle
    /\ DomIdle
    /\ RetryIdle
    /\ g_pc = "ready"
    /\ g_handlers = register_default_actions
    /\ g_op = <<>>
    /\ g_called = "none"

\* a caller registers a handler under a name
RegisterAction ==
    /\ g_pc = "ready"
    /\ \E name \in ActionNames, handler \in CustomHandlers :
         /\ g_handlers' = register_action(g_handlers, name, handler)
         /\ g_op' = <<"register", name, handler>>
    /\ g_called' = "none"
    /\ UNCHANGED g_pc
    /\ UNCHANGED <<reactive_vars, handler_vars, batch_vars, dom_vars,
                   retry_vars>>

\* a run loop looks the action of a step up and calls what it finds
\* (run 240-247, run_reactive 373-380)
Dispatch ==
    /\ g_pc = "ready"
    /\ \E name \in ActionNames :
         /\ g_op' = <<"dispatch", name>>
         /\ g_called' = Lookup(g_handlers, name)
    /\ UNCHANGED <<g_pc, g_handlers>>
    /\ UNCHANGED <<reactive_vars, handler_vars, batch_vars, dom_vars,
                   retry_vars>>

RegistryNext ==
    \/ RegisterAction
    \/ Dispatch

SpecRegistry == RegistryInit /\ [][RegistryNext]_vars

----------------------------------------------------------------------------
(* browser.py: clean_dom and dom_changed.  A document is the sequence of   *)
(* sibling nodes html.parser builds from the markup: a text node carries   *)
(* its characters, an element its tag and its attributes in source order.  *)
(* Strings are sequences of characters.                                    *)

\* most sibling nodes in a document examined
MaxNodes == 3

\* threshold=0.05, in hundredths   (browser.py line 43)
ThresholdPercent == 5

\* line 28
StrippedTags == {"script", "style", "meta", "noscript"}

\* line 36
AttrsToKeep == {"class", "type", "role", "aria-label"}

Text(s) == [kind |-> "text", tag |-> "", attrs |-> <<>>, s |-> s]

Elem(tag, attrs) == [kind |-> "elem", tag |-> tag, attrs |-> attrs, s |-> <<>>]

\* the characters of the names that are printed
Chars(w) ==
    CASE w = "br"    -> <<"b", "r">>
      [] w = "class" -> <<"c", "l", "a", "s", "s">>
      [] w = "id"    -> <<"i", "d">>
      [] OTHER       -> <<w>>

\* the nodes documents are made of
DomNodes ==
    { Text(<<"a">>),
      Elem("script", <<>>),
      Elem("br", <<>>),
      Elem("br", << <<"class", "x">> >>),
      Elem("br", << <<"id", "1">> >>) }

\* a freshly parsed document has no two text nodes side by side
Fresh(doc) ==
    \A i \in 1..(Len(doc) - 1) :
        ~(doc[i].kind = "text" /\ doc[i + 1].kind = "text")

\* the documents of at most n nodes
Docs(n) ==
    { doc \in UNION { [1..k -> DomNodes] : k \in 0..n } : Fresh(doc) }

\* what the parser makes of text nodes side by side in the source: one node
RECURSIVE MergeText(_)
MergeText(doc) ==
    IF Len(doc) < 2 THEN doc
    ELSE IF doc[1].kind = "text" /\ doc[2].kind = "text"
    THEN MergeText(<<Text(doc[1].s \o doc[2].s)>> \o SubSeq(doc, 3, Len(doc)))
    ELSE <<doc[1]>> \o MergeText(Tail(doc))

\* lines 28-29: tag.decompose() for every stripped element; the nodes left
\* keep their places and are not joined
Decompose(doc) ==
    SelectSeq(doc, LAMBDA n : ~(n.kind = "elem" /\ n.tag \in StrippedTags))

\* lines 36-39: delete the attributes outside attrs_to_keep
KeepAttrs(attrs) == SelectSeq(attrs, LAMBDA p : p[1] \in AttrsToKeep)

\* lines 33-39 for every tag
StripAttrs(doc) ==
    [i \in 1..Len(doc) |->
        IF doc[i].kind = "elem"
        THEN Elem(doc[i].tag, KeepAttrs(doc[i].attrs))
        ELSE doc[i]]

\* one attribute as prettify prints it:  name="value"
RECURSIVE PrintAttrs(_)
PrintAttrs(attrs) ==
    IF attrs = <<>> THEN <<>>
    ELSE <<" ">> \o Chars(attrs[1][1]) \o <<"=", "\"">> \o Chars(attrs[1][2])
           \o <<"\"">> \o PrintAttrs(Tail(attrs))

\* soup.prettify(): every node on a line of its own
RECURSIVE Prettify(_)
Prettify(doc) ==
    IF doc = <<>> THEN <<>>
    ELSE (IF doc[1].kind = "text"
          THEN doc[1].s \o <<"\n">>
          ELSE <<"<">> \o Chars(doc[1].tag) \o PrintAttrs(doc[1].attrs)
                 \o <<"/", ">", "\n">>)
         \o Prettify(Tail(doc))

\* clean_dom
clean_dom(doc) == Prettify(StripAttrs(Decompose(doc)))

\* how far x from i and y from j go on being equal, within the windows
RECURSIVE Ext(_, _, _, _, _, _)
Ext(x, y, i, j, xhi, yhi) ==
    IF i > xhi \/ j > yhi THEN 0
    ELSE IF x[i] # y[j] THEN 0
    ELSE 1 + Ext(x, y, i + 1, j + 1, xhi, yhi)

\* SequenceMatcher.find_longest_match: the longest common block of
\* x[xlo..xhi] and y[ylo..yhi], the earliest in x and then in y of the
\* longest ones, as <<i, j, size>>; size 0 when nothing is common
LongestMatch(x, y, xlo, xhi, ylo, yhi) ==
    LET size == [p \in (xlo..xhi) \X (ylo..yhi) |->
                    Ext(x, y, p[1], p[2], xhi, yhi)]
        sizes == {0} \cup { size[p] : p \in DOMAIN size }
        best == CHOOSE k \in sizes : \A l \in sizes : l <= k
        at   == { p \in DOMAIN size : size[p] = best }
        i    == CHOOSE i \in { p[1] : p \in at } :
                    \A p \in at : i <= p[1]
        j    == CHOOSE j \in { p[2] : p \in { q \in at : q[1] = i } } :
                    \A p \in at : p[1] = i => j <= p[2]
    IN  IF best = 0 THEN <<xlo, ylo, 0>> ELSE <<i, j, best>>

\* the total size of SequenceMatcher.get_matching_blocks: the longest
\* block, then the same to its left and to its right
RECURSIVE Matches(_, _, _, _, _, _)
Matches(x, y, xlo, xhi, ylo, yhi) ==
    IF xlo > xhi \/ ylo > yhi THEN 0
    ELSE LET m == LongestMatch(x, y, xlo, xhi, ylo, yhi)
         IN  IF m[3] = 0 THEN 0
             ELSE m[3]
                  + Matches(x, y, xlo, m[1] - 1, ylo, m[2] - 1)
                  + Matches(x, y, m[1] + m[3], xhi, m[2] + m[3], yhi)

\* lines 84-89: 1 - 2.0 * matches / length > threshold.  In floating point
\* the quotient 19/20 rounds below 0.95, so a difference of exactly five
\* hundredths counts as above the threshold.
AboveThreshold(matches, length) ==
    100 * (length - 2 * matches) >= ThresholdPercent * length

\* a comparison that never takes the shortcut of line 72
SameNever(before, after) == FALSE

\* line 72: before == after
Same(before, after) == before = after

\* dom_changed: the value returned and whether the ratio was computed
dom_changed(before_html, after_html) ==
    LET before == clean_dom(before_html)
        after  == clean_dom(after_html)
    IN  IF Same(before, after)
        THEN [changed |-> FALSE, ratio |-> FALSE]
        ELSE IF Max(Len(before), Len(after)) = 0
        THEN [changed |-> FALSE, ratio |-> FALSE]
        ELSE [changed |->
                 AboveThreshold(
                     Matches(before, after, 1, Len(before), 1, Len(after)),
                     Len(before) + Len(after)),
              ratio |-> TRUE]

\* the source of doc with every stripped element deleted
WithoutStripped(doc) == MergeText(Decompose(doc))

\* the source of doc with every attribute outside the allow-list deleted
WithoutOtherAttrs(doc) == StripAttrs(doc)

\* the source of doc with every class value replaced by v
WithClass(doc, v) ==
    [i \in 1..Len(doc) |->
        IF doc[i].kind = "elem"
        THEN Elem(doc[i].tag,
                  [k \in 1..Len(doc[i].attrs) |->
                      IF doc[i].attrs[k][1] = "class"
                      THEN <<"class", v>>
                      ELSE doc[i].attrs[k]])
        ELSE doc[i]]

\* the second documents a first one is compared with
Variants(doc) ==
    { doc, <<>>, WithoutStripped(doc), WithoutOtherAttrs(doc),
      WithClass(doc, "y") } \cup Docs(1)

\* dom_changed is about to be called
DomInit ==
    /\ ReactiveInit
    /\ max_steps = 0
    /\ HandlerIdle
    /\ BatchIdle
    /\ RegistryIdle
    /\ RetryIdle
    /\ d_pc = "ready"
    /\ d_before \in Docs(MaxNodes)
    /\ d_after \in Variants(d_before)
    /\ d_result = FALSE
    /\ d_ratio = FALSE

\* the call returns
DomChanged ==
    /\ d_pc = "ready"
    /\ LET r == dom_changed(d_before, d_after)
       IN  /\ d_result' = r.changed
           /\ d_ratio' = r.ratio
    /\ d_pc' = "done"
    /\ UNCHANGED <<d_before, d_after>>
    /\ UNCHANGED <<reactive_vars, handler_vars, batch_vars, registry_vars,
                   retry_vars>>

DomNext == DomChanged

SpecDom == DomInit /\ [][DomNext]_vars

----------------------------------------------------------------------------
(* planner.py: the retry loop of plan_next_step                            *)

\* largest max_retries examined
MaxRetries == 4

\* max_retries=3   (planner.py line 79)
DefaultMaxRetries == 3

\* the factor in (2 ** attempt) * 10   (planner.py line 194)
BackoffSeconds == 10

\* a backoff that grows by a fixed amount
WaitTimeLinear(attempt) == (attempt + 1) * BackoffSeconds

\* wait_time = (2 ** attempt) * 10
WaitTime(attempt) == (2 ^ attempt) * BackoffSeconds

\* a test for the last attempt that is off by one
IsLastAttemptLate(attempt, retries) == ~(attempt < retries)

\* the else branch of  if attempt < max_retries - 1
IsLastAttempt(attempt, retries) == ~(attempt < retries - 1)

\* for attempt in range(max_retries): the loop goes on or is exhausted
AfterAttempt(attempt, retries) ==
    IF attempt + 1 < retries THEN "request" ELSE "exhausted"

\* plan_next_step(..., max_retries) has just been called
RetryInit ==
    /\ ReactiveInit
    /\ max_steps = 0
    /\ HandlerIdle
    /\ BatchIdle
    /\ RegistryIdle
    /\ DomIdle
    /\ t_max_retries \in 0..MaxRetries
    /\ t_pc = IF t_max_retries > 0 THEN "request" ELSE "exhausted"
    /\ t_attempt = 0
    /\ t_requests = 0
    /\ t_waits = <<>>
    /\ t_result = "none"
    /\ t_response = "none"
    /\ t_value = None

\* the call is over
Ends(result, response, value) ==
    /\ t_pc' = "done"
    /\ t_result' = result
    /\ t_response' = response
    /\ t_value' = value
    /\ UNCHANGED <<t_max_retries, t_attempt, t_waits>>
    /\ UNCHANGED <<reactive_vars, handler_vars, batch_vars, registry_vars,
                   dom_vars>>

\* lines 153-173: the request returns JSON that parses to an object
RequestSucceeds ==
    /\ t_pc = "request"
    /\ t_requests' = t_requests + 1
    /\ \E out \in ModelOutputs : Ends("returned", "ok", plan_next_step(out))

\* lines 153-173: an exception that no except clause names (the content is
\* not JSON, or not an object) leaves the call
RequestUnparsable ==
    /\ t_pc = "request"
    /\ t_requests' = t_requests + 1
    /\ Ends("raised", "unparsable", None)

\* lines 175-188: RateLimitError whose message speaks of quota
QuotaError ==
    /\ t_pc = "request"
    /\ t_requests' = t_requests + 1
    /\ Ends("raised", "quota", None)

\* lines 189-213: any other RateLimitError
RateLimited ==
    /\ t_pc = "request"
    /\ t_requests' = t_requests + 1
    /\ IF IsLastAttempt(t_attempt, t_max_retries)
       THEN Ends("raised", "rate_limit", None)
       ELSE /\ t_waits' = Append(t_waits, WaitTime(t_attempt))
            /\ t_attempt' = t_attempt + 1
            /\ t_pc' = AfterAttempt(t_attempt, t_max_retries)
            /\ t_response' = "rate_limit"
            /\ UNCHANGED <<t_max_retries, t_result, t_value>>
            /\ UNCHANGED <<reactive_vars, handler_vars, batch_vars,
                           registry_vars, dom_vars>>

\* lines 215-220: APIError
ApiError ==
    /\ t_pc = "request"
    /\ t_requests' = t_requests + 1
    /\ Ends("raised", "api_error", None)

\* the loop is exhausted: the function body ends and None is returned
FallThrough ==
    /\ t_pc = "exhausted"
    /\ UNCHANGED t_requests
    /\ Ends("fell_through", t_response, None)

RetryNext ==
    \/ RequestSucceeds
    \/ RequestUnparsable
    \/ QuotaError
    \/ RateLimited
    \/ ApiError
    \/ FallThrough

SpecRetry == RetryInit /\ [][RetryNext]_vars

----------------------------------------------------------------------------
(* Properties                                                              *)

\* the set of indices in a sequence of capture indices
Indices(caps) == { caps[i] : i \in 1..Len(caps) }

\* the proposal under examination is a non-empty mapping
WellFormed(v) == v.kind = "dict" /\ (v.action # "" \/ v.done)

\* v equals one of the last three entries of hist, written out
AmongLastThree(v, hist) ==
    \E i \in 1..Len(hist) : i > Len(hist) - 3 /\ hist[i] = v

(* C1 as stated: the capture indices of a run are exactly 0,1,2,...,k,     *)
(* without gaps or repeats.                                                *)
C1_Contiguous ==
    \A i \in 1..Len(captures) : captures[i] = i - 1

(* C1 amended: the indices of the saved screenshots are strictly           *)
(* increasing (no repeats), the first is the baseline 0, none exceeds the  *)
(* step index, and an index below the step index is missing only where     *)
(* the capture of the except branch raised and was swallowed; with no      *)
(* swallowed capture the sequence is 0,1,...,k.                            *)
C1_CaptureIndices ==
    /\ \A i \in 1..Len(captures) : captures[i] <= step_index
    /\ \A i \in 1..(Len(captures) - 1) : captures[i] < captures[i + 1]
    /\ (captures # <<>> => captures[1] = 0)
    /\ \A k \in 0..(step_index - 1) : k \in Indices(captures) \/ k \in swallowed
    /\ Indices(captures) \cap swallowed = {}
    /\ (swallowed = {} => \A i \in 1..Len(captures) : captures[i] = i - 1)

C1_Witness ==
    /\ pc = "exited"
    /\ captures = <<0, 1, 3>>
    /\ swallowed = {2}

(* C2 as stated: when the planner proposes the same action three times    *)
(* in a row, the first proposal is dispatched, the second is discarded     *)
(* with the counter at 1 and the third stops the run with the counter at   *)
(* 2, so at most one of the three is dispatched.                           *)
C2_ThreeInARow ==
    /\ (Len(streak) = 2 /\ streak[2] = "skip" /\ pc = "plan"
          => repeated_step_count = 1)
    /\ (Len(streak) = 3
          => /\ streak = <<"dispatch", "skip", "stop">>
             /\ repeated_step_count = 2
             /\ exit = "repetition")

(* C3: for a well-formed proposal the counter becomes counter + 1 when     *)
(* the proposal equals one of the last three history entries and 0         *)
(* otherwise, nothing else changes it, the loop is left as soon as it      *)
(* reaches 2, it never exceeds 2, and a handler runs only with it at 0.    *)
C3_RepeatCounter ==
    /\ [](/\ repeated_step_count \in 0..2
          /\ (pc \in {"handler", "capture", "on_error", "advance"}
                => repeated_step_count = 0)
          /\ (repeated_step_count = 2 => pc \in {"after_loop", "exited"}))
    /\ [][/\ (pc = "check" /\ WellFormed(next_step)
                => repeated_step_count' =
                     IF AmongLastThree(next_step, step_history)
                     THEN repeated_step_count + 1 ELSE 0)
          /\ (repeated_step_count' # repeated_step_count
                => pc = "check" /\ WellFormed(next_step))
          /\ (repeated_step_count' = 2 /\ repeated_step_count # 2
                => pc' = "after_loop" /\ exit' = "repetition")
          /\ (pc' = "handler" => repeated_step_count' = 0)]_vars

C3_Witness ==
    /\ repeated_step_count = 2
    /\ exit = "repetition"
    /\ Len(step_history) = 4
    /\ next_step = step_history[2]

\* the planner of C4: no completion, no repeated, malformed or unknown proposal
OnlyFreshProposals ==
    /\ exit \notin {"completed", "invalid_format", "invalid_params",
                    "repetition", "unknown_action"}
    /\ discarded = 0

\* <<0, 1, ..., n>>
UpTo(n) == [i \in 1..(n + 1) |-> i - 1]

C5_ClosedExactlyOnce ==
    /\ close_count <= 1
    /\ (browser = "closed" => pc = "exited")
    /\ (pc = "exited" /\ browser # "none"
          => browser = "closed" /\ close_count = 1)

(* C6 as stated: every handler invocation, successful or not, leaves       *)
(* exactly one record in the history, so between iterations the history    *)
(* is as long as the number of dispatch attempts.                          *)
C6_HistoryRecordsEveryAttempt ==
    pc \notin {"capture", "on_error"} => Len(step_history) = attempts

(* C7: a raise during dispatch does not end the run: the except branch     *)
(* makes one capture attempt at the current step index (saved, or raised   *)
(* and swallowed), then the step index grows by one and the loop goes back *)
(* to planning unless the index now exceeds max_steps; a handler is only   *)
(* ever invoked straight after a planner proposal, never again by the loop.*)
C7_FailureContinues ==
    [][/\ (pc = "handler" => pc' \in {"capture", "on_error"} /\ exit' = exit)
       /\ (pc = "on_error"
             => /\ pc' = "advance"
                /\ exit' = exit
                /\ step_index' = step_index
                /\ attempts' = attempts
                /\ step_history' = step_history
                /\ \/ captures' = Append(captures, step_index)
                   \/ captures' = captures /\ step_index \in swallowed')
       /\ (pc = "advance"
             => /\ step_index' = step_index + 1
                /\ attempts' = attempts
                /\ exit' = exit
                /\ pc' = IF step_index + 1 <= max_steps THEN "plan" ELSE "after_loop")
       /\ (attempts' # attempts => pc = "handler" /\ attempts' = attempts + 1)
       /\ (pc' = "handler" => pc = "check")]_vars

C7_Witness ==
    /\ pc = "plan"
    /\ step_index = 2
    /\ attempts = 1
    /\ next_step = Dict("navigate", {})
    /\ step_history = <<>>

\* the model's JSON has no "step" entry, or the step is not a non-empty mapping
Malformed(out) ==
    \/ ~out.hasStep
    \/ out.step.kind # "dict"
    \/ out.step = EmptyDict

(* C8 as stated: a malformed planner output aborts the run: no handler is  *)
(* invoked for it and the loop is not left as "task completed".            *)
C8_MalformedAborts ==
    (planner_calls > 0 /\ Malformed(last_output))
      => /\ pc \in {"check", "after_loop", "exited"}
         /\ exit \in {"none", "invalid_format", "error"}
         /\ (pc = "exited" => exit # "none")

(* C9 as stated: when plan_next_step raises, run_reactive ends and the     *)
(* error reaches its caller: the call does not return normally.            *)
C9_PlannerErrorPropagates ==
    (pc = "exited" /\ planner_failed) => outcome = "raised"

(* C10: discarding a repeated proposal (counter below 2 after the          *)
(* increment) changes the counter only: step index, history, captures and  *)
(* the number of handler invocations stay as they are and the planner is   *)
(* asked again; the loop returns from the checks straight to planning      *)
(* only for such a discard.                                                *)
C10_DiscardFrame ==
    [][/\ ((pc = "check"
             /\ WellFormed(next_step)
             /\ AmongLastThree(next_step, step_history)
             /\ repeated_step_count + 1 < 2)
             => /\ pc' = "plan"
                /\ repeated_step_count' = repeated_step_count + 1
                /\ UNCHANGED <<step_index, step_history, captures, swallowed,
                               attempts, exit, browser>>)
       /\ (pc = "check" /\ pc' = "plan"
             => /\ AmongLastThree(next_step, step_history)
                /\ repeated_step_count' < 2
                /\ UNCHANGED <<step_index, step_history, captures, attempts>>)]_vars

C10_Witness ==
    /\ pc = "plan"
    /\ discarded = 1
    /\ repeated_step_count = 1
    /\ Len(step_history) = 3
    /\ next_step = step_history[1]

(* C11 as stated: every handler invocation at step index k is followed,   *)
(* before the next planner call, by a saved screenshot with index k.       *)
C11_CaptureAfterEveryAttempt ==
    /\ (pc = "advance" => step_index \in Indices(captures))
    /\ (pc \in {"plan", "check"}
          => \A k \in 1..attempts : k \in Indices(captures))

(* C11 amended: every handler invocation at step index k is followed,      *)
(* before the next planner call, by a capture attempt at index k that is   *)
(* not gated on dom_changed: the screenshot k is saved whenever the        *)
(* capture call does not raise, also when the comparator reports no        *)
(* change; it is missing only where the capture raised and was swallowed.  *)
C11_CaptureNotGated ==
    /\ (pc = "advance"
          => step_index \in Indices(captures) \/ step_index \in swallowed)
    /\ (pc = "advance" /\ verdict # "none" => step_index \in Indices(captures))
    /\ (pc \in {"plan", "check"}
          => /\ attempts = step_index - 1
             /\ \A k \in 1..attempts : k \in Indices(captures) \/ k \in swallowed)

C11_Witness ==
    /\ pc = "advance"
    /\ attempts = 2
    /\ verdict = "same"
    /\ captures = <<0, 1, 2>>

(* C12: the baseline screenshot 0 is saved before the first planner call   *)
(* and whatever max_steps is; the first planner call happens with step     *)
(* index 1, an empty history and no handler invoked yet; with max_steps 0  *)
(* the planner is never called and the run still has its baseline.         *)
C12_BaselineFirst ==
    /\ [](/\ (planner_calls > 0 => captures # <<>> /\ captures[1] = 0)
          /\ (pc \notin {"start", "baseline"} /\ outcome # "raised"
                => captures # <<>> /\ captures[1] = 0)
          /\ (max_steps = 0 => planner_calls = 0))
    /\ [][planner_calls = 0 /\ planner_calls' = 1
            => /\ step_index = 1
               /\ step_history = <<>>
               /\ attempts = 0
               /\ captures = <<0>>]_vars

C12_Witness ==
    /\ max_steps = 0
    /\ pc = "exited"
    /\ outcome = "returned"
    /\ planner_calls = 0
    /\ captures = <<0>>

\* an empty step, parameters that are not a mapping, or parameters the
\* handler's own checks reject (required parameter or locator missing)
StructurallyInvalid(v) ==
    \/ v = EmptyDict
    \/ v.kind = "dict" /\ ~v.isdict
    \/ /\ v.kind = "dict"
       /\ v.isdict
       /\ v.action \in DefaultActions
       /\ HandlerRejects(v.action, v.params)

(* C13 as stated: a structurally invalid proposal aborts the run: once it  *)
(* has been proposed the loop never goes back to planning, so no later     *)
(* action is dispatched.                                                   *)
C13_MalformedActionAborts ==
    [][(pc \in {"check", "handler", "capture", "on_error", "advance"}
          /\ StructurallyInvalid(next_step))
         => pc' # "plan"]_vars

----------------------------------------------------------------------------
(* Properties of the handlers                                              *)

\* the locator keys in params
Locators(p) == p \cap {"text", "selector", "xpath", "coordinates"}

\* the handler call under examination has ended
HandlerDone(a) == h_pc = "done" /\ h_action = a

\* C14: a click, type or wait_for whose params hold no locator or more than
\* one locator is rejected with no browser call made, and every such action
\* that is executed holds exactly one locator.
C14_OneLocator ==
    (h_pc = "done" /\ h_action \in {"click", "type", "wait_for"})
      => /\ (Cardinality(Locators(h_params)) # 1
               => h_result = "ValueError" /\ h_ops = <<>>)
         /\ (h_ops # <<>> => Cardinality(Locators(h_params)) = 1)

\* C15: a type action whose value is the empty string is rejected with no
\* element resolved and nothing filled.
C15_EmptyValueRejected ==
    (HandlerDone("type") /\ h_value_empty)
      => h_result = "ValueError" /\ h_ops = <<>>

\* C16: a navigate whose goto returned and whose wait for network idle timed
\* out still ends as a success.
C16_SettleTimeoutTolerated ==
    (HandlerDone("navigate") /\ "url" \in h_params
       /\ h_env.goto /\ ~h_env.settle)
      => h_result = "ok"

\* C17: a click, type or wait_for whose only locator is a selector, an xpath
\* or (for click) coordinates, on a page where every browser call succeeds,
\* is performed and not rejected.
C17_NonTextLocators ==
    (/\ h_pc = "done"
     /\ h_action \in {"click", "type", "wait_for"}
     /\ h_action = "type" => "value" \in h_params
     /\ h_env = AllOk
     /\ \/ Locators(h_params) \in {{"selector"}, {"xpath"}}
        \/ h_action = "click" /\ Locators(h_params) = {"coordinates"})
      => h_result = "ok" /\ h_ops # <<>>

\* C18: a click by text whose text is not resolved or whose element is not
\* visible ends with the error that carries the text, with no click and no
\* pause; in every click the pause is the call right after a click that
\* returned.
C18_TextClickFailure ==
    HandlerDone("click")
      => /\ ("text" \in h_params /\ (~h_env.resolve \/ ~h_env.visible)
               => /\ h_result = "TextNotFound"
                  /\ h_locator = "text"
                  /\ "click" \notin Range(h_ops)
                  /\ "pause" \notin Range(h_ops))
         /\ ("pause" \in Range(h_ops)
               => /\ h_result = "ok"
                  /\ h_env.click
                  /\ Len(h_ops) >= 2
                  /\ h_ops[Len(h_ops)] = "pause"
                  /\ h_ops[Len(h_ops) - 1] = "click")
         /\ (h_result = "ok" => "pause" \in Range(h_ops))

C18_Witness ==
    /\ HandlerDone("click")
    /\ h_params = {"text"}
    /\ h_env.resolve
    /\ ~h_env.visible
    /\ h_env.click
    /\ h_result = "TextNotFound"
    /\ h_ops = <<"resolve_text", "is_visible">>

\* the number of fills among the calls made
Fills(ops) == Cardinality({ i \in 1..Len(ops) : ops[i] = "fill" })

\* C19: a type by text tries label, aria-label/placeholder, input near the
\* text, textbox role, placeholder in this order up to the first one that
\* succeeds, fills once and tries no later one; it fails exactly when none
\* of the five succeeds, after trying all five.
C19_StrategyOrder ==
    (HandlerDone("type") /\ "value" \in h_params /\ "text" \in h_params)
      => IF h_env.strat = {}
         THEN /\ h_result = "Error"
              /\ h_ops = <<"label", "aria_or_placeholder", "input_near_text",
                           "role_textbox", "placeholder">>
         ELSE LET first == CHOOSE k \in h_env.strat :
                               \A j \in h_env.strat : k <= j
              IN  /\ h_result = "ok"
                  /\ Fills(h_ops) = 1
                  /\ h_ops = SubSeq(<<"label", "aria_or_placeholder",
                                      "input_near_text", "role_textbox",
                                      "placeholder">>, 1, first)
                               \o <<"fill", "pause">>

C19_Witness ==
    /\ HandlerDone("type")
    /\ h_params = {"text", "value"}
    /\ h_env.strat = {5}
    /\ h_result = "ok"
    /\ h_ops = <<"label", "aria_or_placeholder", "input_near_text",
                 "role_textbox", "placeholder", "fill", "pause">>

----------------------------------------------------------------------------
(* Properties of the batch run                                             *)

\* C20 as stated: in the batch run a step has a screenshot only when the
\* detector reports that the markup before and after the action differ.
C20_CaptureGated ==
    (b_pc = "advance" /\ b_index \in Indices(b_captures))
      => b_verdict = "changed"

\* C20: in the batch run every step whose handler was invoked gets a capture
\* call that does not depend on the detector: the screenshot is saved
\* whenever the call returns, whatever the detector reports, and is missing
\* only when the capture of the except branch raised; steps that were
\* skipped have no screenshot.
C20_CaptureUngated ==
    /\ (b_pc = "advance"
          => /\ b_index \in Indices(b_captures) \/ b_index \in b_swallowed
             /\ b_verdict # "none" => b_index \in Indices(b_captures))
    /\ Indices(b_captures) \ {0} \subseteq Range(b_dispatched)
    /\ (b_pc \in {"capture", "on_error", "advance"}
          => b_dispatched # <<>> /\ b_dispatched[Len(b_dispatched)] = b_index)

C20_Witness ==
    /\ b_pc = "advance"
    /\ b_verdict = "same"
    /\ b_index = 2
    /\ b_captures = <<0, 2>>

----------------------------------------------------------------------------
(* Properties of the registry                                              *)

\* C21: before any registration the registry binds exactly navigate, click,
\* type and wait_for; register_action(name, handler) makes name look up to
\* handler and changes the lookup of no other name; a dispatch of a bound
\* name calls the handler bound to it and leaves the registry as it was.
C21_Registry ==
    /\ [](/\ (g_pc = "ready" /\ g_op = <<>>
                => /\ Bound(g_handlers) = {"navigate", "click", "type", "wait_for"}
                   /\ Lookup(g_handlers, "navigate") = "_handle_navigate"
                   /\ Lookup(g_handlers, "click") = "_handle_click"
                   /\ Lookup(g_handlers, "type") = "_handle_type"
                   /\ Lookup(g_handlers, "wait_for") = "_handle_wait_for")
          /\ \A p, q \in g_handlers : p[1] = q[1] => p = q)
    /\ [][/\ ((g_op' # g_op /\ g_op'[1] = "register")
                => /\ Lookup(g_handlers', g_op'[2]) = g_op'[3]
                   /\ \A n \in ActionNames \ {g_op'[2]} :
                        Lookup(g_handlers', n) = Lookup(g_handlers, n)
                   /\ Bound(g_handlers') = Bound(g_handlers) \cup {g_op'[2]})
          /\ ((g_op' # g_op /\ g_op'[1] = "dispatch")
                => /\ g_handlers' = g_handlers
                   /\ g_called' = Lookup(g_handlers, g_op'[2])
                   /\ (g_op'[2] \in Bound(g_handlers) => g_called' # "none"))]_vars

C21_Witness ==
    /\ g_op = <<"dispatch", "scroll">>
    /\ g_called = "custom_handler"
    /\ Lookup(g_handlers, "click") = "custom_handler"
    /\ Lookup(g_handlers, "type") = "_handle_type"

----------------------------------------------------------------------------
(* Properties of dom_changed                                               *)

\* C22: dom_changed(a, a) is false, dom_changed of two empty markups is
\* false, and whenever the two normalized forms are equal the answer is
\* false and no similarity ratio is computed.
C22_EqualIsUnchanged ==
    d_pc = "done"
      => /\ (d_before = d_after => ~d_result /\ ~d_ratio)
         /\ (d_before = <<>> /\ d_after = <<>> => ~d_result /\ ~d_ratio)
         /\ (clean_dom(d_before) = clean_dom(d_after) => ~d_result /\ ~d_ratio)

C22_Witness ==
    /\ d_pc = "done"
    /\ d_before = <<Text(<<"a">>), Elem("br", << <<"id", "1">> >>)>>
    /\ d_after = <<Text(<<"a">>), Elem("br", <<>>)>>
    /\ ~d_result
    /\ ~d_ratio

\* the attributes of the allow-list, in order
Kept(attrs) == SelectSeq(attrs, LAMBDA p : p[1] \in {"class", "type", "role", "aria-label"})

\* x and y differ at most in attributes outside the allow-list
SameButOtherAttrs(x, y) ==
    /\ Len(x) = Len(y)
    /\ \A i \in 1..Len(x) :
         /\ x[i].kind = y[i].kind
         /\ x[i].tag = y[i].tag
         /\ x[i].s = y[i].s
         /\ Kept(x[i].attrs) = Kept(y[i].attrs)

\* x and y differ at most in script, style, meta and noscript elements
SameButStripped(x, y) == WithoutStripped(x) = WithoutStripped(y)

\* C23: for two markups that differ only in attributes other than class,
\* type, role and aria-label, or only in script, style, meta and noscript
\* elements, dom_changed is false.
C23_NoiseIsUnchanged ==
    (d_pc = "done"
       /\ (SameButOtherAttrs(d_before, d_after)
             \/ SameButStripped(d_before, d_after)))
      => ~d_result

----------------------------------------------------------------------------
(* Properties of run_reactive: termination and bounds                      *)

\* what is left of a run: the step indices still to come, and within one
\* index the way from planning to the increment; a discard is taken once
PhaseRank ==
    CASE pc = "plan"     -> IF repeated_step_count = 0 THEN 8 ELSE 6
      [] pc = "check"    -> IF repeated_step_count = 0 THEN 7 ELSE 5
      [] pc = "handler"  -> 4
      [] pc = "capture"  -> 3
      [] pc = "on_error" -> 2
      [] pc = "advance"  -> 1
      [] OTHER           -> 0

Variant ==
    CASE pc = "start"      -> 9 * (max_steps + 1) + 2
      [] pc = "baseline"   -> 9 * (max_steps + 1) + 1
      [] pc = "after_loop" -> 1
      [] pc = "exited"     -> 0
      [] OTHER             -> 9 * (max_steps + 1 - step_index) + PhaseRank

\* C24: run_reactive ends: every step the run takes brings it nearer to its
\* end and it can take a step until it has ended; a proposal is discarded
\* only when none was discarded since the last dispatch, and the planner is
\* called at most 2 * max_steps times.
C24_Terminates ==
    /\ [](/\ Variant >= 0
          /\ (Variant = 0 <=> pc = "exited")
          /\ (pc # "exited" => ENABLED Next)
          /\ planner_calls <= 2 * max_steps
          /\ discarded <= attempts + 1
          /\ attempts <= max_steps)
    /\ [][Variant' < Variant]_vars
    /\ [][discarded' > discarded
            => /\ repeated_step_count = 0
               /\ repeated_step_count' = 1
               /\ attempts' = attempts]_vars
    /\ [][attempts' > attempts => repeated_step_count = 0]_vars

C24_Witness ==
    /\ pc = "exited"
    /\ max_steps = 2
    /\ planner_calls = 3
    /\ attempts = 2
    /\ discarded = 1

\* C25: the history only grows, by appending the dispatched proposal, at
\* most once per step index, and no entry equals any of the up to three
\* entries right before it.
C25_HistoryAppendOnly ==
    /\ [](/\ \A i \in 1..Len(step_history) :
               \A j \in 1..(i - 1) :
                   i - j <= 3 => step_history[i] # step_history[j]
          /\ (pc \in {"plan", "check", "handler", "capture", "on_error"}
                => Len(step_history) <= step_index - 1)
          /\ (pc = "advance" => Len(step_history) <= step_index))
    /\ [][\/ step_history' = step_history
          \/ /\ step_history' = Append(step_history, next_step)
             /\ pc = "capture"
             /\ pc' = "advance"
             /\ step_index' = step_index]_vars

C25_Witness ==
    /\ Len(step_history) = 5
    /\ step_history[5] = step_history[1]
    /\ step_index = 5
    /\ pc = "advance"

\* the planner made the same proposal on every call of a run of n calls, and
\* each one was dispatched
SameEveryCall(n) ==
    /\ planner_calls = n
    /\ attempts = n
    /\ streak = [i \in 1..n |-> "dispatch"]

\* C26 as stated: when the same proposal is made on every call and every
\* dispatch fails, the run makes max_steps dispatch attempts and ends with
\* captures at 0..max_steps and an empty history.
C26_AsStated ==
    (/\ pc = "exited"
     /\ outcome = "returned"
     /\ max_steps \in 1..3
     /\ SameEveryCall(max_steps)
     /\ step_history = <<>>)
      => captures = [i \in 1..(max_steps + 1) |-> i - 1]

\* C26: with an empty history no proposal is discarded or stopped as a
\* repetition, and a failed dispatch leaves the history as it is; so a run
\* whose dispatches all fail and that ends by the loop test has made
\* max_steps planner calls and max_steps dispatch attempts, none discarded,
\* keeps an empty history, and has a capture at every index of 0..max_steps
\* but those whose capture raised in the except branch.
C26_FailingRepeats ==
    /\ [][(pc = "check" /\ step_history = <<>>)
            => /\ discarded' = discarded
               /\ exit' # "repetition"
               /\ repeated_step_count' = 0]_vars
    /\ [][(pc = "handler" \/ pc = "on_error")
            => step_history' = step_history]_vars
    /\ []((/\ pc = "exited"
           /\ outcome = "returned"
           /\ exit = "none"
           /\ step_history = <<>>)
            => /\ planner_calls = max_steps
               /\ attempts = max_steps
               /\ discarded = 0
               /\ Indices(captures) = (0..max_steps) \ swallowed
               /\ Len(captures) = Cardinality(Indices(captures)))

C26_Witness ==
    /\ pc = "exited"
    /\ outcome = "returned"
    /\ max_steps = 3
    /\ SameEveryCall(3)
    /\ step_history = <<>>
    /\ exit = "none"
    /\ captures = <<0, 1, 2, 3>>

\* C27: a run that returned reports that the maximum number of steps was
\* reached exactly when its loop ended by the loop test; every break leaves
\* the loop with the step index at most max_steps, and such a run, like one
\* that raised, does not report it.
C27_MaxStepsWarning ==
    /\ [](/\ (pc = "exited" /\ outcome = "returned"
                => (warned_max <=> exit = "none"))
          /\ (pc = "exited" /\ outcome = "returned" /\ exit = "none"
                => step_index = max_steps + 1)
          /\ (exit # "none" => step_index <= max_steps /\ step_index >= 1)
          /\ (exit \in {"completed", "invalid_format", "invalid_params",
                        "repetition", "unknown_action", "error"}
                => ~warned_max)
          /\ (outcome = "raised" => ~warned_max))
    /\ [][exit' # exit => step_index' = step_index /\ pc' = "after_loop"]_vars

C27_Witness ==
    /\ pc = "exited"
    /\ outcome = "returned"
    /\ exit = "repetition"
    /\ step_index = max_steps
    /\ ~warned_max

\* the positions of steps whose element is a non-empty dict with mapping
\* params and a registered action
Dispatchable(steps) ==
    { i \in 1..Len(steps) :
        ~SkippedUnseen(steps[i]) /\ steps[i].action \in DefaultActions }

\* seq lists the members of S in increasing order, each once
ListsInOrder(seq, S) ==
    /\ Range(seq) = S
    /\ Len(seq) = Cardinality(S)
    /\ \A i \in 1..(Len(seq) - 1) : seq[i] < seq[i + 1]

\* C28: in the batch run the i-th element is processed at step index i; an
\* invalid element or one with an unknown action is neither dispatched nor
\* captured; every other element is dispatched once, in list order, with
\* its capture at index i; when a run whose baseline was captured is over,
\* all of them have been dispatched and the browser is closed.
C28_BatchOrder ==
    /\ (b_pc \in {"capture", "on_error", "advance"} => b_index = b_pos)
    /\ (b_pc = "next" => b_index = b_pos + 1)
    /\ Range(b_dispatched) \subseteq Dispatchable(b_steps)
    /\ Indices(b_captures) \ {0} \subseteq Range(b_dispatched)
    /\ \A i \in 1..(Len(b_dispatched) - 1) : b_dispatched[i] < b_dispatched[i + 1]
    /\ (b_pc = "exited" /\ b_captures # <<>>
          => /\ ListsInOrder(b_dispatched, Dispatchable(b_steps))
             /\ b_browser = "closed")

----------------------------------------------------------------------------
(* Properties of plan_next_step's retry loop                               *)

C30_RetryLoop ==
    /\ [](t_max_retries >= 1
            => /\ t_requests <= t_max_retries
               /\ t_requests = t_attempt + (IF t_pc = "done" THEN 1 ELSE 0)
               /\ t_pc \in {"request", "done"}
               /\ (t_pc = "done" => t_result \in {"returned", "raised"})
               /\ (t_result = "returned" <=> (t_pc = "done" /\ t_response = "ok")))
    /\ [][(t_max_retries >= 1 /\ t_requests' # t_requests)
            => /\ t_requests' = t_requests + 1
               /\ (t_response' \in {"quota", "api_error", "unparsable"}
                     => /\ t_pc' = "done"
                        /\ t_result' = "raised"
                        /\ t_waits' = t_waits)
               /\ (t_response' = "rate_limit" /\ t_attempt = t_max_retries - 1
                     => /\ t_pc' = "done"
                        /\ t_result' = "raised"
                        /\ t_waits' = t_waits)
               /\ (t_response' = "rate_limit" /\ t_attempt < t_max_retries - 1
                     => /\ t_pc' = "request"
                        /\ Len(t_waits') = Len(t_waits) + 1
                        /\ t_attempt' = t_attempt + 1)
               /\ (t_response' = "ok"
                     => /\ t_pc' = "done"
                        /\ t_result' = "returned"
                        /\ t_waits' = t_waits)]_vars
    /\ [][t_pc = "done" => UNCHANGED retry_vars]_vars

C30_Witness ==
    /\ t_pc = "done"
    /\ t_max_retries = 2
    /\ t_requests = 2
    /\ t_response = "quota"
    /\ t_result = "raised"
    /\ t_waits = <<10>>

====
